---- MODULE Spec2Model ----
(***************************************************************************)
(* A model of instructor/batch.py: the request envelope (RequestBody and   *)
(* its map_tools validator), the batch writer (create_from_messages) and   *)
(* the batch result parser (parse_from_file, parse_from_string).           *)
(*                                                                         *)
(* Text is modelled as a sequence of lexemes.  A lexeme is either a single *)
(* character that matters to line splitting or to JSON decoding (LF, CR,   *)
(* FF = U+000C, LS = U+2028, v = an ordinary character) or a fixed piece   *)
(* of JSON text that holds none of those characters (listed with           *)
(* json_loads below).                                                      *)
(***************************************************************************)
EXTENDS Naturals, Sequences, FiniteSets, TLC

VARIABLES
    content,      \* the batch output: a file's contents / the string passed
    pc,           \* position of the running parse call
    entry,        \* which entry point is running: "file" or "string"
    lines,        \* the lines the running call iterates over
    i,            \* number of lines the running call has processed
    res,          \* the running call's list of parsed instances
    error_objs,   \* the running call's list of error records
    outcome,      \* per entry point: what the call gave back to its caller
    values,       \* the keyword arguments a RequestBody is constructed from
    body,         \* RequestBody(**values): the instance, or the exception
    wire,         \* json.loads(body.model_dump_json())
    body2,        \* RequestBody(**wire)
    tpc,          \* position of the envelope round trip
    messages_batch,      \* create_from_messages: the conversations
    model,               \* the model string, a sequence of characters
    response_model_arg,  \* the response_model argument
    max_tokens,
    temperature,
    file,                \* the lines of the file at file_path
    use_anthropic,
    kwargs,              \* the keyword arguments derived for every envelope
    written,             \* conversations written so far
    issued,              \* the ids uuid.uuid4() has given out
    wpc                  \* position of the create_from_messages call

pvars == <<content, pc, entry, lines, i, res, error_objs, outcome>>
tvars == <<values, body, wire, body2, tpc>>
wvars == <<messages_batch, model, response_model_arg, max_tokens, temperature,
           file, use_anthropic, kwargs, written, issued, wpc>>
vars == <<pvars, tvars, wvars>>
notParser == <<tvars, wvars>>
notTools == <<pvars, wvars>>
notWriter == <<pvars, tvars>>

(***************************************************************************)
(* Bounds.                                                                 *)
(***************************************************************************)
MaxLines == 3

(***************************************************************************)
(* Python values.  JSON values are tagged; an exception that an expression *)
(* raises is the value Exc(class), which every operation propagates.       *)
(***************************************************************************)
Obj(f) == [t |-> "obj", f |-> f]
Arr(a) == [t |-> "arr", a |-> a]
Str(s) == [t |-> "str", s |-> s]
Num == [t |-> "num"]
Exc(e) == [t |-> "exc", e |-> e]
NoneValue == [t |-> "none"]
IsExc(v) == v.t = "exc"

\* d[key] for a str key: dict lookup; a list or a str cannot be indexed by a
\* str, a number cannot be subscripted (TypeError).
GetItem(d, key) ==
    IF IsExc(d) THEN d
    ELSE IF d.t = "obj"
         THEN IF key \in DOMAIN d.f THEN d.f[key] ELSE Exc("KeyError")
         ELSE Exc("TypeError")

\* d[0]: first element of a list, first character of a str; a dict decoded
\* from JSON has only str keys (KeyError).
GetFirst(d) ==
    IF IsExc(d) THEN d
    ELSE CASE d.t = "arr" -> IF Len(d.a) > 0 THEN d.a[1] ELSE Exc("IndexError")
           [] d.t = "str" -> IF Len(d.s) > 0 THEN Str(<<d.s[1]>>) ELSE Exc("IndexError")
           [] d.t = "obj" -> Exc("KeyError")
           [] OTHER -> Exc("TypeError")

\* key in d, for d a container: key membership for a dict, element membership
\* for a list, substring for a str.
Contains(key, d) ==
    CASE d.t = "obj" -> key \in DOMAIN d.f
      [] d.t = "arr" -> \E k \in 1..Len(d.a) : d.a[k] = Str(<<key>>)
      [] d.t = "str" -> \E k \in 1..Len(d.s) : d.s[k] = key
      [] OTHER -> FALSE

\* What evaluating "key in d" raises, if anything: the exception d stands for,
\* or TypeError when d is not a container.
ContainsRaises(d) ==
    IF IsExc(d) THEN d
    ELSE IF d.t \in {"obj", "arr", "str"} THEN Num ELSE Exc("TypeError")

(***************************************************************************)
(* json.loads.  Lexemes of JSON text:                                      *)
(*   NE   {"custom_id":"v"}                                                *)
(*   NUM  1                                                                *)
(*   GE   {"response":{"body":{"choices":[{"message":{"tool_calls":[]}}]}}}*)
(*   AE   {"result":{"message":{"content":[]}}}                            *)
(*   GH   {"response":{"body":{"choices":[{"message":{"tool_calls":        *)
(*        [{"function":{"arguments":"              (a string is now open)  *)
(*   GT   "}}]}}]}}}                                                       *)
(*   AH   {"result":{"message":{"content":[{"text":"                       *)
(*   AT   "}]}}}                                                           *)
(*   HH   {"response":{"body":{"choices":[{"message":{}}]}},               *)
(*        "result":{"message":{"content":[{"text":"                        *)
(*   JUNK {oops                                    (not JSON)              *)
(* inside a string literal of the outer text:                              *)
(*   ePO  {\"name\":\"     ePX  {\"nmae\":\"     ePC  \"}                  *)
(* and, after the string literal is decoded, in the nested text:           *)
(*   PO   {"name":"        PX   {"nmae":"        PC   "}                   *)
(* v and LS may stand raw inside a JSON string; FF (a control character)   *)
(* may not, and none of LS, FF is JSON whitespace.                         *)
(***************************************************************************)
JsonWhitespace == {"LF", "CR"}
StringChars == {"ePO", "ePX", "ePC", "v", "LS"}
NestedStringChars == {"v", "LS"}

RECURSIVE LStrip(_)
LStrip(s) ==
    IF s # <<>> /\ Head(s) \in JsonWhitespace THEN LStrip(Tail(s)) ELSE s

RECURSIVE RStrip(_)
RStrip(s) ==
    IF s # <<>> /\ s[Len(s)] \in JsonWhitespace
    THEN RStrip(SubSeq(s, 1, Len(s) - 1)) ELSE s

Inner(s) == SubSeq(s, 2, Len(s) - 1)
AllIn(s, chars) == \A k \in 1..Len(s) : s[k] \in chars

\* The value of a string literal's body: escape sequences are resolved.
Unescape(s) ==
    [k \in 1..Len(s) |->
        CASE s[k] = "ePO" -> "PO"
          [] s[k] = "ePX" -> "PX"
          [] s[k] = "ePC" -> "PC"
          [] OTHER -> s[k]]

GenericRecord(arguments) ==
    Obj([response |-> Obj([body |-> Obj([choices |-> Arr(<<
        Obj([message |-> Obj([tool_calls |-> Arr(<<
            Obj([function |-> Obj([arguments |-> arguments])]) >>)])]) >>)])])])

AnthropicRecord(text) ==
    Obj([result |-> Obj([message |-> Obj([content |-> Arr(<<
        Obj([text |-> text]) >>)])])])

HybridRecord(text) ==
    Obj([response |-> Obj([body |-> Obj([choices |-> Arr(<<
            Obj([message |-> Obj(<<>>)]) >>)])]),
         result |-> Obj([message |-> Obj([content |-> Arr(<<
            Obj([text |-> text]) >>)])])])

json_loads(text) ==
    LET s == RStrip(LStrip(text))
        n == Len(s)
        closed(h, t) == n >= 2 /\ s[1] = h /\ s[n] = t
    IN  CASE s = <<"NE">> -> Obj([custom_id |-> Str(<<"v">>)])
          [] s = <<"NUM">> -> Num
          [] s = <<"GE">> ->
                Obj([response |-> Obj([body |-> Obj([choices |-> Arr(<<
                    Obj([message |-> Obj([tool_calls |-> Arr(<<>>)])]) >>)])])])
          [] s = <<"AE">> ->
                Obj([result |-> Obj([message |-> Obj([content |-> Arr(<<>>)])])])
          [] closed("GH", "GT") /\ AllIn(Inner(s), StringChars) ->
                GenericRecord(Str(Unescape(Inner(s))))
          [] closed("AH", "AT") /\ AllIn(Inner(s), StringChars) ->
                AnthropicRecord(Str(Unescape(Inner(s))))
          [] closed("HH", "AT") /\ AllIn(Inner(s), StringChars) ->
                HybridRecord(Str(Unescape(Inner(s))))
          [] closed("PO", "PC") /\ AllIn(Inner(s), NestedStringChars) ->
                Obj([name |-> Str(Inner(s))])
          [] closed("PX", "PC") /\ AllIn(Inner(s), NestedStringChars) ->
                Obj([nmae |-> Str(Inner(s))])
          [] OTHER -> Exc("JSONDecodeError")

\* json.loads(x) inside an expression: x must be a str.
json_loads_value(x) ==
    IF IsExc(x) THEN x
    ELSE IF x.t = "str" THEN json_loads(x.s) ELSE Exc("TypeError")

(***************************************************************************)
(* response_model called with **kw: the caller's target schema.  One      *)
(* schema is used, with a single required field, name: str; unknown fields *)
(* are ignored, a missing or non-str name fails validation, and ** needs a *)
(* mapping.                                                                *)
(***************************************************************************)
Instance(name) == [t |-> "instance", cls |-> "response_model", name |-> name]

response_model(kw) ==
    IF IsExc(kw) THEN kw
    ELSE IF kw.t # "obj" THEN Exc("TypeError")
    ELSE IF "name" \in DOMAIN kw.f /\ kw.f["name"].t = "str"
         THEN Instance(kw.f["name"].s)
         ELSE Exc("ValidationError")

(***************************************************************************)
(* Splitting into lines.                                                   *)
(***************************************************************************)
\* Iterating a file opened in text mode (universal newlines): a line ends at
\* LF, at CR LF or at a lone CR, the terminator is kept and read as LF; other
\* characters never end a line.  A last line without a terminator is given
\* as it is.
RECURSIVE FileLinesFrom(_, _)
FileLinesFrom(rest, cur) ==
    IF rest = <<>> THEN (IF cur = <<>> THEN <<>> ELSE <<cur>>)
    ELSE IF Head(rest) = "LF"
         THEN <<Append(cur, "LF")>> \o FileLinesFrom(Tail(rest), <<>>)
    ELSE IF Head(rest) = "CR"
         THEN <<Append(cur, "LF")>> \o
              FileLinesFrom(IF Len(rest) >= 2 /\ rest[2] = "LF"
                            THEN Tail(Tail(rest)) ELSE Tail(rest), <<>>)
    ELSE FileLinesFrom(Tail(rest), Append(cur, Head(rest)))

FileLines(text) == FileLinesFrom(text, <<>>)

\* str.splitlines(): a line ends at LF, CR LF, CR and also at VT, FF, FS, GS,
\* RS, NEL, LS and PS (of these the alphabet has FF and LS); the terminator
\* is dropped.
SplitBoundaries == {"LF", "CR", "FF", "LS"}

RECURSIVE SplitLinesFrom(_, _)
SplitLinesFrom(rest, cur) ==
    IF rest = <<>> THEN (IF cur = <<>> THEN <<>> ELSE <<cur>>)
    ELSE IF Head(rest) = "CR" /\ Len(rest) >= 2 /\ rest[2] = "LF"
         THEN <<cur>> \o SplitLinesFrom(Tail(Tail(rest)), <<>>)
    ELSE IF Head(rest) \in SplitBoundaries
         THEN <<cur>> \o SplitLinesFrom(Tail(rest), <<>>)
    ELSE SplitLinesFrom(Tail(rest), Append(cur, Head(rest)))

splitlines(text) == SplitLinesFrom(text, <<>>)

(***************************************************************************)
(* The parser.  One action per loop iteration of each entry point.         *)
(***************************************************************************)
NoOutcome == [kind |-> "none"]
Raised(e) == [kind |-> "raised", exc |-> e]
Returned(parsed, errors) == [kind |-> "returned", parsed |-> parsed, errors |-> errors]

\* The body of the try block of parse_from_file: the instance to append to
\* res, or the exception raised on the way.
file_try(data) ==
    LET message == GetItem(GetFirst(GetItem(GetItem(GetItem(data,
                        "response"), "body"), "choices")), "message")
    IN  IF IsExc(ContainsRaises(message)) THEN ContainsRaises(message)
        ELSE IF Contains("tool_calls", message)
        THEN response_model(json_loads_value(
                GetItem(GetItem(GetFirst(GetItem(GetItem(GetFirst(GetItem(
                    GetItem(GetItem(data, "response"), "body"), "choices")),
                    "message"), "tool_calls")), "function"), "arguments")))
        ELSE response_model(json_loads_value(
                GetItem(GetFirst(GetItem(GetItem(GetItem(data,
                    "result"), "message"), "content")), "text")))

\* The body of the try block of parse_from_string.
string_try(data) ==
    LET message == GetItem(GetFirst(GetItem(GetItem(GetItem(data,
                        "response"), "body"), "choices")), "message")
    IN  IF IsExc(ContainsRaises(message)) THEN ContainsRaises(message)
        ELSE IF Contains("tool_calls", message)
        THEN response_model(json_loads_value(
                GetItem(GetItem(GetFirst(GetItem(GetItem(GetFirst(GetItem(
                    GetItem(GetItem(data, "response"), "body"), "choices")),
                    "message"), "tool_calls")), "function"), "arguments")))
        ELSE response_model(json_loads_value(
                GetItem(GetFirst(GetItem(GetItem(GetItem(data,
                    "result"), "message"), "content")), "text")))

CallOver == pc \in {"idle", "returned", "raised"}

parse_from_file_open ==
    /\ CallOver /\ outcome["file"] = NoOutcome
    /\ entry' = "file"
    /\ lines' = FileLines(content)
    /\ res' = <<>> /\ error_objs' = <<>> /\ i' = 0
    /\ pc' = "loop"
    /\ UNCHANGED <<content, outcome>>
    /\ UNCHANGED notParser

\* parse_from_file's loop body with a handler that catches KeyError only:
\* every other failure of the try block reaches the caller.
parse_from_file_line_catch_keyerror ==
    /\ pc = "loop" /\ entry = "file" /\ i < Len(lines)
    /\ LET data == json_loads(lines[i + 1])
       IN  IF IsExc(data)
           THEN /\ pc' = "raised"
                /\ outcome' = [outcome EXCEPT !["file"] = Raised(data.e)]
                /\ UNCHANGED <<i, res, error_objs>>
           ELSE IF IsExc(file_try(data)) /\ file_try(data).e # "KeyError"
           THEN /\ pc' = "raised"
                /\ outcome' = [outcome EXCEPT !["file"] = Raised(file_try(data).e)]
                /\ UNCHANGED <<i, res, error_objs>>
           ELSE /\ IF IsExc(file_try(data))
                   THEN error_objs' = Append(error_objs, data) /\ res' = res
                   ELSE res' = Append(res, file_try(data)) /\ error_objs' = error_objs
                /\ i' = i + 1
                /\ UNCHANGED <<pc, outcome>>
    /\ UNCHANGED <<content, entry, lines>>
    /\ UNCHANGED notParser

\* parse_from_file's loop body with json.loads(line) moved inside the try:
\* a line that is not JSON is passed over (there is no record to keep).
parse_from_file_line_decode_in_try ==
    /\ pc = "loop" /\ entry = "file" /\ i < Len(lines)
    /\ LET data == json_loads(lines[i + 1])
       IN  IF IsExc(data)
           THEN UNCHANGED <<res, error_objs>>
           ELSE IF IsExc(file_try(data))
                THEN error_objs' = Append(error_objs, data) /\ res' = res
                ELSE res' = Append(res, file_try(data)) /\ error_objs' = error_objs
    /\ i' = i + 1
    /\ UNCHANGED <<pc, outcome, content, entry, lines>>
    /\ UNCHANGED notParser

parse_from_file_line ==
    /\ pc = "loop" /\ entry = "file" /\ i < Len(lines)
    /\ LET data == json_loads(lines[i + 1])
       IN  IF IsExc(data)
           THEN /\ pc' = "raised"
                /\ outcome' = [outcome EXCEPT !["file"] = Raised(data.e)]
                /\ UNCHANGED <<i, res, error_objs>>
           ELSE /\ IF IsExc(file_try(data))
                   THEN error_objs' = Append(error_objs, data) /\ res' = res
                   ELSE res' = Append(res, file_try(data)) /\ error_objs' = error_objs
                /\ i' = i + 1
                /\ UNCHANGED <<pc, outcome>>
    /\ UNCHANGED <<content, entry, lines>>
    /\ UNCHANGED notParser

parse_from_file_return ==
    /\ pc = "loop" /\ entry = "file" /\ i = Len(lines)
    /\ pc' = "returned"
    /\ outcome' = [outcome EXCEPT !["file"] = Returned(res, error_objs)]
    /\ UNCHANGED <<content, entry, lines, i, res, error_objs>>
    /\ UNCHANGED notParser

\* The content is parsed from the file first and from the string afterwards.
parse_from_string_start ==
    /\ CallOver /\ outcome["file"] # NoOutcome /\ outcome["string"] = NoOutcome
    /\ entry' = "string"
    /\ res' = <<>> /\ error_objs' = <<>> /\ i' = 0
    /\ lines' = splitlines(content)
    /\ pc' = "loop"
    /\ UNCHANGED <<content, outcome>>
    /\ UNCHANGED notParser

\* parse_from_string's loop body with a handler that drops the record
\* (except Exception: pass).
parse_from_string_line_drop ==
    /\ pc = "loop" /\ entry = "string" /\ i < Len(lines)
    /\ LET data == json_loads(lines[i + 1])
       IN  IF IsExc(data)
           THEN /\ pc' = "raised"
                /\ outcome' = [outcome EXCEPT !["string"] = Raised(data.e)]
                /\ UNCHANGED <<i, res, error_objs>>
           ELSE /\ IF IsExc(string_try(data))
                   THEN UNCHANGED <<res, error_objs>>
                   ELSE res' = Append(res, string_try(data)) /\ error_objs' = error_objs
                /\ i' = i + 1
                /\ UNCHANGED <<pc, outcome>>
    /\ UNCHANGED <<content, entry, lines>>
    /\ UNCHANGED notParser

parse_from_string_line ==
    /\ pc = "loop" /\ entry = "string" /\ i < Len(lines)
    /\ LET data == json_loads(lines[i + 1])
       IN  IF IsExc(data)
           THEN /\ pc' = "raised"
                /\ outcome' = [outcome EXCEPT !["string"] = Raised(data.e)]
                /\ UNCHANGED <<i, res, error_objs>>
           ELSE /\ IF IsExc(string_try(data))
                   THEN error_objs' = Append(error_objs, data) /\ res' = res
                   ELSE res' = Append(res, string_try(data)) /\ error_objs' = error_objs
                /\ i' = i + 1
                /\ UNCHANGED <<pc, outcome>>
    /\ UNCHANGED <<content, entry, lines>>
    /\ UNCHANGED notParser

parse_from_string_return ==
    /\ pc = "loop" /\ entry = "string" /\ i = Len(lines)
    /\ pc' = "returned"
    /\ outcome' = [outcome EXCEPT !["string"] = Returned(res, error_objs)]
    /\ UNCHANGED <<content, entry, lines, i, res, error_objs>>
    /\ UNCHANGED notParser

(***************************************************************************)
(* Batch outputs: up to MaxLines lines, each one of LineTexts, joined by   *)
(* LF, with or without a final LF.                                         *)
(***************************************************************************)
LineTexts == {
    <<"GH", "ePO", "v", "ePC", "GT">>,      \* generic record, valid payload
    <<"AH", "ePO", "v", "ePC", "AT">>,      \* Anthropic record, valid payload
    <<"HH", "ePO", "v", "ePC", "AT">>,      \* response without tool_calls + result
    <<"NE">>,                               \* neither recognised key
    <<"GH", "ePX", "v", "ePC", "GT">>,      \* payload fails the schema
    <<"GH", "v", "GT">>,                    \* payload is not JSON
    <<"GE">>,                               \* empty tool_calls list
    <<"AE">>,                               \* empty content list
    <<"NUM">>,                              \* JSON, but not an object
    <<"GH", "ePO", "LS", "ePC", "GT">>,     \* raw U+2028 inside the payload
    <<"NE", "FF", "NE">>,                   \* two objects around a form feed
    <<"NE", "CR">>,                         \* record ended by CR (then LF)
    <<"JUNK">>,                             \* not JSON
    <<>> }                                  \* blank line

RECURSIVE Join(_, _)
Join(texts, final) ==
    IF texts = <<>> THEN <<>>
    ELSE IF Len(texts) = 1
         THEN Head(texts) \o (IF final THEN <<"LF">> ELSE <<>>)
         ELSE Head(texts) \o <<"LF">> \o Join(Tail(texts), final)

Init ==
    /\ \E n \in 0..MaxLines : \E texts \in [1..n -> LineTexts] :
           \E final \in BOOLEAN : content = Join(texts, final)
    /\ pc = "idle"
    /\ entry = "file"
    /\ lines = <<>>
    /\ i = 0
    /\ res = <<>>
    /\ error_objs = <<>>
    /\ outcome = [e \in {"file", "string"} |-> NoOutcome]
    /\ values = <<>> /\ body = NoneValue /\ wire = NoneValue
    /\ body2 = NoneValue /\ tpc = "unused"
    /\ messages_batch = <<>> /\ model = <<>> /\ response_model_arg = ""
    /\ max_tokens = 0 /\ temperature = 0 /\ file = <<>>
    /\ use_anthropic = FALSE /\ kwargs = NoneValue /\ written = 0
    /\ issued = {} /\ wpc = "unused"

Next ==
    \/ parse_from_file_open
    \/ parse_from_file_line
    \/ parse_from_file_return
    \/ parse_from_string_start
    \/ parse_from_string_line
    \/ parse_from_string_return

Spec == Init /\ [][Next]_vars

(***************************************************************************)
(* Vocabulary of the parser claims, stated on the decoded records and not  *)
(* through the parser's own lookups.                                       *)
(***************************************************************************)
Missing == [t |-> "missing"]
Key(k) == [key |-> k]
First == [first |-> TRUE]

\* The value at a path of keys and first-element steps, or Missing.
RECURSIVE At(_, _)
At(d, path) ==
    IF path = <<>> THEN d
    ELSE LET step == Head(path)
         IN  IF "key" \in DOMAIN step
             THEN IF d.t = "obj" /\ step.key \in DOMAIN d.f
                  THEN At(d.f[step.key], Tail(path)) ELSE Missing
             ELSE IF d.t = "arr" /\ Len(d.a) >= 1
                  THEN At(d.a[1], Tail(path)) ELSE Missing

MessagePath == <<Key("response"), Key("body"), Key("choices"), First, Key("message")>>
GenericPath == MessagePath \o
    <<Key("tool_calls"), First, Key("function"), Key("arguments")>>
AnthropicPath == <<Key("result"), Key("message"), Key("content"), First, Key("text")>>

\* The string at the path is JSON text of an object the target schema accepts.
PayloadOk(d, path) ==
    /\ At(d, path).t = "str"
    /\ LET kw == json_loads(At(d, path).s)
       IN  kw.t = "obj" /\ "name" \in DOMAIN kw.f /\ kw.f["name"].t = "str"

\* The target-schema instance the payload at the path stands for.
PayloadResult(d, path) == Instance(json_loads(At(d, path).s).f["name"].s)

WellFormedGeneric(d) == PayloadOk(d, GenericPath)
WellFormedAnthropic(d) == PayloadOk(d, AnthropicPath)
WellFormed(d) == WellFormedGeneric(d) \/ WellFormedAnthropic(d)
Result(d) ==
    IF WellFormedGeneric(d) THEN PayloadResult(d, GenericPath)
    ELSE PayloadResult(d, AnthropicPath)

\* The detection / extraction / nested decode / construction sequence fails
\* on record d: the message to inspect is not there, or the payload of the
\* format the presence of tool_calls selects is missing or unusable.
SequenceFails(d) ==
    \/ At(d, MessagePath).t # "obj"
    \/ /\ "tool_calls" \in DOMAIN At(d, MessagePath).f
       /\ ~PayloadOk(d, GenericPath)
    \/ /\ "tool_calls" \notin DOMAIN At(d, MessagePath).f
       /\ ~PayloadOk(d, AnthropicPath)

Decodes(line) == ~IsExc(json_loads(line))
AllDecode(ls) == \A k \in 1..Len(ls) : Decodes(ls[k])

RECURSIVE ParsedOf(_)
ParsedOf(ls) ==
    IF ls = <<>> THEN <<>>
    ELSE (IF WellFormed(json_loads(Head(ls)))
          THEN <<Result(json_loads(Head(ls)))>> ELSE <<>>) \o ParsedOf(Tail(ls))

RECURSIVE ErrorsOf(_)
ErrorsOf(ls) ==
    IF ls = <<>> THEN <<>>
    ELSE (IF WellFormed(json_loads(Head(ls)))
          THEN <<>> ELSE <<json_loads(Head(ls))>>) \o ErrorsOf(Tail(ls))

RECURSIVE FailedOf(_)
FailedOf(ls) ==
    IF ls = <<>> THEN <<>>
    ELSE (IF SequenceFails(json_loads(Head(ls)))
          THEN <<json_loads(Head(ls))>> ELSE <<>>) \o FailedOf(Tail(ls))

Running == pc \in {"loop", "returned"}
Done(e) == outcome[e].kind # "none"

(***************************************************************************)
(* C1: when every line is valid JSON, a parse call returns as parsed the   *)
(* instances of the well-formed records of either format (generic and      *)
(* Anthropic), in line order, and as errors the other decoded records, in  *)
(* line order.                                                             *)
(***************************************************************************)
C1_BothFormatsParsed ==
    (pc = "returned" /\ AllDecode(lines)) =>
        /\ res = ParsedOf(lines)
        /\ error_objs = ErrorsOf(lines)

(***************************************************************************)
(* C2: a failure of the detection / extraction / nested decode /           *)
(* construction sequence on a decoded record is never raised: exactly the  *)
(* decoded records on which it fails are in the error list, as decoded and *)
(* in line order, none of them adds to the parsed list, and the loop goes  *)
(* on; a call raises only at a line that is not JSON.                      *)
(***************************************************************************)
C2_FailuresIsolated ==
    /\ Running =>
          /\ error_objs = FailedOf(SubSeq(lines, 1, i))
          /\ Len(res) = i - Len(FailedOf(SubSeq(lines, 1, i)))
    /\ pc = "raised" => ~Decodes(lines[i + 1])

\* Reached: a call that returned after a schema failure, a payload that is
\* not JSON and an empty tool_calls list, with a parsed record after them.
C2_Witness ==
    /\ pc = "returned" /\ Len(lines) = MaxLines /\ Len(error_objs) = MaxLines - 1
    /\ \E j \in 1..(MaxLines - 1) : At(error_objs[j], GenericPath).t = "str"
    /\ \E j \in 1..(MaxLines - 1) : At(error_objs[j], GenericPath) = Missing
    /\ SequenceFails(json_loads(lines[1]))
    /\ Len(res) = 1

(***************************************************************************)
(* C3: after i lines have been processed, len(parsed) + len(errors) = i;   *)
(* when the call returns, i is the number of lines of the input, the lines *)
(* being those the call iterates over (the file's lines for                *)
(* parse_from_file, content.splitlines() for parse_from_string).           *)
(***************************************************************************)
C3_Accounting ==
    /\ Running => Len(res) + Len(error_objs) = i
    /\ pc = "returned" => i = Len(lines)
    /\ \A e \in {"file", "string"} : outcome[e].kind = "returned" =>
          Len(outcome[e].parsed) + Len(outcome[e].errors) =
            Len(IF e = "file" THEN FileLines(content) ELSE splitlines(content))

\* Reached: a returned call with lines in both lists.
C3_Witness ==
    /\ pc = "returned" /\ Len(lines) = MaxLines
    /\ Len(res) >= 1 /\ Len(error_objs) >= 1

(***************************************************************************)
(* C4: a line that is not valid JSON makes the call raise: no call returns *)
(* a pair for an input with such a line, the call stops at the first such  *)
(* line whatever precedes or follows it, and gives its caller no pair.     *)
(* The lines are those the call iterates over.                             *)
(***************************************************************************)
C4_FatalAbort ==
    /\ \A e \in {"file", "string"} : outcome[e].kind = "returned" =>
          AllDecode(IF e = "file" THEN FileLines(content) ELSE splitlines(content))
    /\ pc \in {"loop", "returned", "raised"} => AllDecode(SubSeq(lines, 1, i))
    /\ pc = "raised" =>
          /\ ~Decodes(lines[i + 1])
          /\ outcome[entry] = Raised("JSONDecodeError")

\* Reached: a call that raised at a line with valid lines before and after.
C4_Witness ==
    /\ pc = "raised" /\ i >= 1 /\ Len(lines) >= i + 2
    /\ Decodes(lines[i + 2])

(***************************************************************************)
(* C8: on the same content, parse_from_file and parse_from_string either   *)
(* both raise or return the same (parsed, errors) pair.                    *)
(***************************************************************************)
C8_EntryPointsAgree ==
    (Done("file") /\ Done("string")) => outcome["file"] = outcome["string"]

(***************************************************************************)
(* The request envelope.  An untyped tool object or keyword dictionary is  *)
(* a function from its keys; a scalar is a string, and the strings of      *)
(* NonStr stand for values that are not str (an int).                      *)
(***************************************************************************)
NonStr == {"#1"}
IsStr(v) == v \notin NonStr
ValidMessages == {"m1", "m2"}      \* values that are list[dict[str, Any]]

max_tokens_default == 1000
temperature_default == 1

IsInstance(v) == v.t = "instance"
List(a) == [t |-> "list", a |-> a]

\* Function(**kw): name: str, description: str, parameters: Any, all required.
Function(kw) ==
    IF /\ {"name", "description", "parameters"} \subseteq DOMAIN kw
       /\ IsStr(kw["name"]) /\ IsStr(kw["description"])
    THEN [t |-> "instance", cls |-> "Function", name |-> kw["name"],
          description |-> kw["description"], parameters |-> kw["parameters"]]
    ELSE Exc("ValidationError")

\* Tool(**kw): type: str, function: Function; other keys are ignored.
Tool(kw) ==
    IF /\ {"type", "function"} \subseteq DOMAIN kw
       /\ IsStr(kw["type"])
       /\ IsInstance(Function(kw["function"]))
    THEN [t |-> "instance", cls |-> "Tool", type |-> kw["type"],
          function |-> Function(kw["function"])]
    ELSE Exc("ValidationError")

\* AnthropicTool(name=..., description=..., input_schema=...).
AnthropicTool(name, description, input_schema) ==
    IF IsStr(name) /\ IsStr(description)
    THEN [t |-> "instance", cls |-> "AnthropicTool", name |-> name,
          description |-> description, input_schema |-> input_schema]
    ELSE Exc("ValidationError")

\* map_tools with an else branch that leaves the tool out instead of raising.
RECURSIVE map_tools_loop_skip_unknown(_, _)
map_tools_loop_skip_unknown(tools_data, mapped_tools) ==
    IF tools_data = <<>> THEN List(mapped_tools)
    ELSE LET tool_data == Head(tools_data)
             mapped ==
                IF "function" \in DOMAIN tool_data
                THEN Tool(tool_data)
                ELSE IF "input_schema" \in DOMAIN tool_data
                THEN IF {"name", "description"} \subseteq DOMAIN tool_data
                     THEN AnthropicTool(tool_data["name"], tool_data["description"],
                                        tool_data["input_schema"])
                     ELSE Exc("KeyError")
                ELSE NoneValue
         IN  IF IsExc(mapped) THEN mapped
             ELSE map_tools_loop_skip_unknown(Tail(tools_data),
                    IF mapped = NoneValue THEN mapped_tools
                    ELSE Append(mapped_tools, mapped))

\* The loop of map_tools over tools_data: the list of typed tools, or the
\* first exception.
RECURSIVE map_tools_loop(_, _)
map_tools_loop(tools_data, mapped_tools) ==
    IF tools_data = <<>> THEN List(mapped_tools)
    ELSE LET tool_data == Head(tools_data)
             mapped ==
                IF "function" \in DOMAIN tool_data
                THEN Tool(tool_data)
                ELSE IF "input_schema" \in DOMAIN tool_data
                THEN IF {"name", "description"} \subseteq DOMAIN tool_data
                     THEN AnthropicTool(tool_data["name"], tool_data["description"],
                                        tool_data["input_schema"])
                     ELSE Exc("KeyError")
                ELSE Exc("ValueError: Unknown tool format")
         IN  IF IsExc(mapped) THEN mapped
             ELSE map_tools_loop(Tail(tools_data), Append(mapped_tools, mapped))

\* The pre root validator: values with "tools" replaced by the typed tools,
\* or the exception raised.
map_tools(vals) ==
    LET mapped == map_tools_loop(
                    IF "tools" \in DOMAIN vals THEN vals["tools"] ELSE <<>>, <<>>)
    IN  IF IsExc(mapped) THEN mapped
        ELSE [k \in DOMAIN vals \cup {"tools"} |->
                IF k = "tools" THEN mapped.a ELSE vals[k]]

\* RequestBody(**vals): map_tools first, then the fields.
RequestBody(vals) ==
    LET v == map_tools(vals)
    IN  IF DOMAIN v = DOMAIN Exc("") THEN v      \* map_tools raised
        ELSE IF ~({"model", "messages"} \subseteq DOMAIN v) THEN Exc("ValidationError")
        ELSE IF v["messages"] \notin ValidMessages THEN Exc("ValidationError")
        ELSE [t |-> "instance", cls |-> "RequestBody",
              model |-> v["model"],
              messages |-> v["messages"],
              max_tokens |-> IF "max_tokens" \in DOMAIN v THEN v["max_tokens"]
                             ELSE max_tokens_default,
              temperature |-> IF "temperature" \in DOMAIN v THEN v["temperature"]
                              ELSE temperature_default,
              tools |-> v["tools"],
              tool_choice |-> IF "tool_choice" \in DOMAIN v THEN v["tool_choice"]
                              ELSE NoneValue]

\* json.loads(x.model_dump_json()) for a tool: the plain object of the
\* variant's fields; the class is not part of the JSON.
dump_tool(tool) ==
    IF tool.cls = "Tool"
    THEN [type |-> tool.type,
          function |-> [name |-> tool.function.name,
                        description |-> tool.function.description,
                        parameters |-> tool.function.parameters]]
    ELSE [name |-> tool.name, description |-> tool.description,
          input_schema |-> tool.input_schema]

\* A Tool dumped as its function's fields only, without the type wrapper.
model_dump_json_unwrapped(b) ==
    [model |-> b.model, messages |-> b.messages, max_tokens |-> b.max_tokens,
     temperature |-> b.temperature,
     tools |-> [k \in 1..Len(b.tools) |->
                 IF b.tools[k].cls = "Tool"
                 THEN [name |-> b.tools[k].function.name,
                       description |-> b.tools[k].function.description,
                       parameters |-> b.tools[k].function.parameters]
                 ELSE dump_tool(b.tools[k])],
     tool_choice |-> b.tool_choice]

\* json.loads(b.model_dump_json()) for a RequestBody b.
model_dump_json(b) ==
    [model |-> b.model, messages |-> b.messages, max_tokens |-> b.max_tokens,
     temperature |-> b.temperature,
     tools |-> [k \in 1..Len(b.tools) |-> dump_tool(b.tools[k])],
     tool_choice |-> b.tool_choice]

(***************************************************************************)
(* Envelope construction and its JSON round trip, on keyword dictionaries  *)
(* with up to MaxTools tool objects drawn from ToolObjects.                *)
(***************************************************************************)
MaxTools == 2

FunctionObject(name) == [name |-> name, description |-> "d", parameters |-> "schema"]

ToolObjects == {
    [type |-> "function", function |-> FunctionObject("n1")],
    [type |-> "function", function |-> FunctionObject("n2")],
    [type |-> "other", function |-> FunctionObject("n1")],
    [name |-> "n1", description |-> "d", input_schema |-> "schema"],
    [name |-> "n2", description |-> "d", input_schema |-> "schema"],
    [name |-> "n1", description |-> "d"],                     \* neither key
    FunctionObject("n1"),                                     \* bare function
    [function |-> FunctionObject("n1")],                      \* no type
    [type |-> "function", function |-> [name |-> "n1", description |-> "d"]],
    [type |-> "function", function |-> FunctionObject("#1")], \* name not a str
    [name |-> "n1", input_schema |-> "schema"],               \* no description
    [type |-> "function", function |-> FunctionObject("n1"), name |-> "n2",
     description |-> "d", input_schema |-> "schema"] }        \* both keys

Keywords(withModel, messages, withTools, tools) ==
    [k \in {"messages"} \cup (IF withModel THEN {"model"} ELSE {})
                         \cup (IF withTools THEN {"tools"} ELSE {}) |->
        CASE k = "model" -> <<"g", "p", "t", "-", "4", "o">>
          [] k = "messages" -> messages
          [] k = "tools" -> tools]

ParserUnused ==
    /\ content = <<>> /\ pc = "unused" /\ entry = "file" /\ lines = <<>>
    /\ i = 0 /\ res = <<>> /\ error_objs = <<>>
    /\ outcome = [e \in {"file", "string"} |-> NoOutcome]

WriterUnused ==
    /\ messages_batch = <<>> /\ model = <<>> /\ response_model_arg = ""
    /\ max_tokens = 0 /\ temperature = 0 /\ file = <<>>
    /\ use_anthropic = FALSE /\ kwargs = NoneValue /\ written = 0
    /\ issued = {} /\ wpc = "unused"

InitTools ==
    /\ \E n \in 0..MaxTools : \E tools \in [1..n -> ToolObjects] :
       \E withModel \in BOOLEAN : \E messages \in {"m1", "bad"} :
       \E withTools \in BOOLEAN :
            /\ (n > 0 => withTools)
            /\ values = Keywords(withModel, messages, withTools, tools)
    /\ body = NoneValue /\ wire = NoneValue /\ body2 = NoneValue
    /\ tpc = "new"
    /\ ParserUnused
    /\ WriterUnused

RequestBody_construct ==
    /\ tpc = "new"
    /\ body' = RequestBody(values)
    /\ tpc' = IF IsExc(RequestBody(values)) THEN "failed" ELSE "built"
    /\ UNCHANGED <<values, wire, body2>>
    /\ UNCHANGED notTools

RequestBody_dump ==
    /\ tpc = "built"
    /\ wire' = model_dump_json(body)
    /\ tpc' = "dumped"
    /\ UNCHANGED <<values, body, body2>>
    /\ UNCHANGED notTools

RequestBody_reload ==
    /\ tpc = "dumped"
    /\ body2' = RequestBody(wire)
    /\ tpc' = "reloaded"
    /\ UNCHANGED <<values, body, wire>>
    /\ UNCHANGED notTools

NextTools ==
    \/ RequestBody_construct
    \/ RequestBody_dump
    \/ RequestBody_reload

SpecTools == InitTools /\ [][NextTools]_vars

(***************************************************************************)
(* Vocabulary of the envelope claims, on the untyped tool objects.         *)
(***************************************************************************)
WellFormedGenericTool(o) ==
    /\ DOMAIN o = {"type", "function"}
    /\ IsStr(o["type"])
    /\ DOMAIN o["function"] = {"name", "description", "parameters"}
    /\ IsStr(o["function"]["name"]) /\ IsStr(o["function"]["description"])

WellFormedAnthropicTool(o) ==
    /\ DOMAIN o = {"name", "description", "input_schema"}
    /\ IsStr(o["name"]) /\ IsStr(o["description"])

NeitherTool(o) == "function" \notin DOMAIN o /\ "input_schema" \notin DOMAIN o

ToolsGiven == IF "tools" \in DOMAIN values THEN values["tools"] ELSE <<>>
FieldsGiven == "model" \in DOMAIN values /\ values["messages"] \in ValidMessages
Constructed == tpc \notin {"new", "unused"}

\* Typed tool x is the generic variant with the fields of object o.
IsGenericOf(x, o) ==
    /\ x.cls = "Tool" /\ x.type = o["type"]
    /\ x.function.cls = "Function"
    /\ x.function.name = o["function"]["name"]
    /\ x.function.description = o["function"]["description"]
    /\ x.function.parameters = o["function"]["parameters"]

IsAnthropicOf(x, o) ==
    /\ x.cls = "AnthropicTool" /\ x.name = o["name"]
    /\ x.description = o["description"] /\ x.input_schema = o["input_schema"]

(***************************************************************************)
(* C5: map_tools turns every well-formed generic tool object into a Tool   *)
(* with the nested object's fields and every well-formed Anthropic tool    *)
(* object into an AnthropicTool with the same fields; an object with       *)
(* neither a "function" nor an "input_schema" key makes the construction   *)
(* fail (with the unknown-format error when it is the first object that    *)
(* is not well-formed), and no envelope exists.                            *)
(***************************************************************************)
C5_ToolClassification ==
    Constructed =>
      /\ ( /\ FieldsGiven
           /\ \A k \in 1..Len(ToolsGiven) :
                 WellFormedGenericTool(ToolsGiven[k]) \/ WellFormedAnthropicTool(ToolsGiven[k]) )
         => /\ IsInstance(body) /\ Len(body.tools) = Len(ToolsGiven)
            /\ \A k \in 1..Len(ToolsGiven) :
                 IF WellFormedGenericTool(ToolsGiven[k])
                 THEN IsGenericOf(body.tools[k], ToolsGiven[k])
                 ELSE IsAnthropicOf(body.tools[k], ToolsGiven[k])
      /\ \A k \in 1..Len(ToolsGiven) : NeitherTool(ToolsGiven[k]) =>
            /\ IsExc(body) /\ tpc = "failed"
            /\ (\A j \in 1..(k - 1) :
                    WellFormedGenericTool(ToolsGiven[j]) \/ WellFormedAnthropicTool(ToolsGiven[j]))
               => body = Exc("ValueError: Unknown tool format")

\* Reached: an envelope holding a Tool and an AnthropicTool.
C5_Witness ==
    /\ tpc = "built" /\ Len(ToolsGiven) = MaxTools
    /\ \E k \in 1..MaxTools : WellFormedGenericTool(ToolsGiven[k])
    /\ \E k \in 1..MaxTools : WellFormedAnthropicTool(ToolsGiven[k])

\* Reached: a construction that failed on an object of neither shape which
\* follows a well-formed one.
C5_ReachedUnknownFormat ==
    /\ tpc = "failed" /\ Len(ToolsGiven) = MaxTools
    /\ WellFormedGenericTool(ToolsGiven[1])
    /\ NeitherTool(ToolsGiven[MaxTools])
    /\ body = Exc("ValueError: Unknown tool format")

(***************************************************************************)
(* C9: a RequestBody built from N well-formed generic tool objects, dumped *)
(* to JSON and constructed again from the decoded JSON, has N tools, in    *)
(* the original order, each a Tool with the original type and function     *)
(* name, description and parameters.                                       *)
(***************************************************************************)
C9_RoundTrip ==
    ( /\ tpc = "reloaded"
      /\ \A k \in 1..Len(ToolsGiven) : WellFormedGenericTool(ToolsGiven[k]) )
    => /\ IsInstance(body2) /\ Len(body2.tools) = Len(ToolsGiven)
       /\ \A k \in 1..Len(ToolsGiven) : IsGenericOf(body2.tools[k], ToolsGiven[k])

\* Reached: a round trip of MaxTools generic tools, not all with one name.
C9_Witness ==
    /\ tpc = "reloaded" /\ Len(ToolsGiven) = MaxTools
    /\ \A k \in 1..MaxTools : WellFormedGenericTool(ToolsGiven[k])
    /\ ToolsGiven[1] # ToolsGiven[MaxTools]
    /\ IsInstance(body2)

(***************************************************************************)
(* The batch writer, create_from_messages.                                 *)
(***************************************************************************)
MaxConvs == 3

\* str.lower() on the characters model strings are drawn from.
lower(str) ==
    [k \in 1..Len(str) |->
        CASE str[k] = "C" -> "c" [] str[k] = "L" -> "l" [] str[k] = "A" -> "a"
          [] str[k] = "U" -> "u" [] str[k] = "D" -> "d" [] str[k] = "E" -> "e"
          [] str[k] = "X" -> "x" [] OTHER -> str[k]]

\* sub in str, for strings.
substring_in(sub, str) ==
    \E off \in 0..Len(str) :
        /\ off + Len(sub) <= Len(str)
        /\ \A k \in 1..Len(sub) : str[off + k] = sub[k]

claude == <<"c", "l", "a", "u", "d", "e">>

\* The test without lower(): "claude" in model.
use_anthropic_case_sensitive(m) == substring_in(claude, m)

\* use_anthropic = "claude" in model.lower()
use_anthropic_of(m) == substring_in(claude, lower(m))

\* handle_response_model(response_model=..., mode=...)[1]: the provider's
\* tool payload and forced tool choice for the target schema, and in
\* Anthropic mode the (empty) messages it prepared; it raises for a
\* response_model it cannot handle.
ValidResponseModels == {"User"}

handle_response_model(rm, mode) ==
    IF rm \notin ValidResponseModels THEN Exc("TypeError")
    ELSE IF mode = "ANTHROPIC_TOOLS"
    THEN [tools |-> <<[name |-> rm, description |-> "d", input_schema |-> "schema"]>>,
          tool_choice |-> [type |-> "tool", name |-> rm],
          messages |-> "m0"]
    ELSE [tools |-> <<[type |-> "function",
                      function |-> [name |-> rm, description |-> "d",
                                    parameters |-> "schema"]]>>,
          tool_choice |-> [type |-> "function", function |-> [name |-> rm]]]

IsRaised(v) == DOMAIN v = DOMAIN Exc("")

\* kwargs.pop(key)
pop(kw, key) ==
    IF key \in DOMAIN kw THEN [k \in DOMAIN kw \ {key} |-> kw[k]]
    ELSE Exc("KeyError")

\* RequestBody(model=..., messages=..., max_tokens=..., temperature=...,
\* **kwargs): a keyword given twice is a TypeError.
ExplicitKeywords == {"model", "messages", "max_tokens", "temperature"}

params_of(messages) ==
    IF DOMAIN kwargs \cap ExplicitKeywords # {} THEN Exc("TypeError")
    ELSE RequestBody(
            [k \in ExplicitKeywords \cup DOMAIN kwargs |->
                CASE k = "model" -> model
                  [] k = "messages" -> messages
                  [] k = "max_tokens" -> max_tokens
                  [] k = "temperature" -> temperature
                  [] OTHER -> kwargs[k]])

\* json.loads(batch_model.model_dump_json()) for
\* BatchModel(custom_id=str(id), params=params).
line_of(id, params) == [custom_id |-> id, params |-> model_dump_json(params)]

\* uuid.uuid4(): an id that was not given out before.
UuidSpace == 1..(MaxConvs + 1)

OldLine == [custom_id |-> 0, params |-> NoneValue]

create_from_messages_derive ==
    /\ wpc = "start"
    /\ use_anthropic' = use_anthropic_of(model)
    /\ LET kw == handle_response_model(response_model_arg,
                    IF use_anthropic_of(model) THEN "ANTHROPIC_TOOLS" ELSE "TOOLS")
           popped == IF IsRaised(kw) \/ ~use_anthropic_of(model) THEN kw
                     ELSE pop(kw, "messages")
       IN  /\ kwargs' = popped
           /\ wpc' = IF IsRaised(popped) THEN "raised_before_open" ELSE "derived"
    /\ UNCHANGED <<messages_batch, model, response_model_arg, max_tokens,
                   temperature, file, written, issued>>
    /\ UNCHANGED notWriter

\* open(file_path, "w"): the file is created or truncated.
create_from_messages_open ==
    /\ wpc = "derived"
    /\ file' = <<>>
    /\ written' = 0
    /\ wpc' = "loop"
    /\ UNCHANGED <<messages_batch, model, response_model_arg, max_tokens,
                   temperature, use_anthropic, kwargs, issued>>
    /\ UNCHANGED notWriter

\* The loop body with one id made before the loop and used for every line.
create_from_messages_write_one_id ==
    /\ wpc = "loop" /\ written < Len(messages_batch)
    /\ LET id == 1
           params == params_of(messages_batch[written + 1])
       IN  /\ issued' = issued \cup {id}
           /\ IF IsExc(params)
              THEN wpc' = "raised_in_loop" /\ UNCHANGED <<file, written>>
              ELSE /\ file' = Append(file, line_of(id, params))
                   /\ written' = written + 1
                   /\ wpc' = wpc
    /\ UNCHANGED <<messages_batch, model, response_model_arg, max_tokens,
                   temperature, use_anthropic, kwargs>>
    /\ UNCHANGED notWriter

\* The loop body with a failed envelope passed over (skip the conversation
\* and go on).
create_from_messages_write_skip_failed ==
    /\ wpc = "loop" /\ written < Len(messages_batch)
    /\ \E id \in UuidSpace \ issued :
        LET params == params_of(messages_batch[written + 1])
        IN  /\ issued' = issued \cup {id}
            /\ IF IsExc(params)
               THEN file' = file
               ELSE file' = Append(file, line_of(id, params))
            /\ written' = written + 1
            /\ wpc' = wpc
    /\ UNCHANGED <<messages_batch, model, response_model_arg, max_tokens,
                   temperature, use_anthropic, kwargs>>
    /\ UNCHANGED notWriter

\* One iteration of the loop: both branches on use_anthropic build the same
\* BatchModel.  An exception leaves the with block, which closes the file
\* with the lines written so far, and reaches the caller.
create_from_messages_write ==
    /\ wpc = "loop" /\ written < Len(messages_batch)
    /\ \E id \in UuidSpace \ issued :
        LET params == IF use_anthropic
                      THEN params_of(messages_batch[written + 1])
                      ELSE params_of(messages_batch[written + 1])
        IN  /\ issued' = issued \cup {id}
            /\ IF IsExc(params)
               THEN wpc' = "raised_in_loop" /\ UNCHANGED <<file, written>>
               ELSE /\ file' = Append(file, line_of(id, params))
                    /\ written' = written + 1
                    /\ wpc' = wpc
    /\ UNCHANGED <<messages_batch, model, response_model_arg, max_tokens,
                   temperature, use_anthropic, kwargs>>
    /\ UNCHANGED notWriter

\* The loop is over: the with block closes the file and the call returns.
create_from_messages_return ==
    /\ wpc = "loop" /\ written = Len(messages_batch)
    /\ wpc' = "done"
    /\ UNCHANGED <<messages_batch, model, response_model_arg, max_tokens,
                   temperature, file, use_anthropic, kwargs, written, issued>>
    /\ UNCHANGED notWriter

ModelNames == {
    <<"c", "l", "a", "u", "d", "e", "-", "3">>,
    <<"C", "l", "a", "u", "d", "e", "-", "X">>,
    <<"m", "y", "-", "C", "L", "A", "U", "D", "E">>,
    <<"g", "p", "t", "-", "4", "o">>,
    <<"c", "l", "a", "u", "d">>,
    <<"c", "l", "a", "u", "-", "d", "e">> }

InitWriter ==
    /\ \E k \in 0..MaxConvs : messages_batch \in [1..k -> {"m1", "m2", "bad"}]
    /\ model \in ModelNames
    /\ response_model_arg \in {"User", "unsupported"}
    /\ \E s \in {<<max_tokens_default, temperature_default>>, <<16, 0>>} :
           max_tokens = s[1] /\ temperature = s[2]
    /\ file = <<OldLine>>
    /\ use_anthropic = FALSE /\ kwargs = NoneValue /\ written = 0
    /\ issued = {} /\ wpc = "start"
    /\ ParserUnused
    /\ values = <<>> /\ body = NoneValue /\ wire = NoneValue
    /\ body2 = NoneValue /\ tpc = "unused"

NextWriter ==
    \/ create_from_messages_derive
    \/ create_from_messages_open
    \/ create_from_messages_write
    \/ create_from_messages_return

SpecWriter == InitWriter /\ [][NextWriter]_vars

(***************************************************************************)
(* Vocabulary of the writer claims.                                        *)
(***************************************************************************)
ClaudeLetters == << {"c", "C"}, {"l", "L"}, {"a", "A"}, {"u", "U"}, {"d", "D"}, {"e", "E"} >>

\* The model string holds "claude" in some mix of upper and lower case.
NamesClaude(m) ==
    \E off \in 0..Len(m) :
        /\ off + Len(ClaudeLetters) <= Len(m)
        /\ \A k \in 1..Len(ClaudeLetters) : m[off + k] \in ClaudeLetters[k]

AnthropicShaped(tool) == DOMAIN tool = {"name", "description", "input_schema"}
GenericShaped(tool) == DOMAIN tool = {"type", "function"}

FileWritten == wpc \in {"loop", "raised_in_loop", "done"}
FailingConversations ==
    {k \in 1..Len(messages_batch) : messages_batch[k] \notin ValidMessages}
FirstFailing == CHOOSE k \in FailingConversations : \A j \in FailingConversations : k <= j

(***************************************************************************)
(* C6: when every envelope is built, the file holds exactly one line per   *)
(* conversation, line k with conversation k's messages, all custom_ids     *)
(* differ, and every line has the same model, max_tokens, temperature,     *)
(* tools and tool_choice (those of the call).                              *)
(***************************************************************************)
C6_OneLinePerConversation ==
    wpc = "done" =>
        /\ Len(file) = Len(messages_batch)
        /\ \A k \in 1..Len(file) : file[k].params.messages = messages_batch[k]
        /\ \A j, k \in 1..Len(file) : j # k => file[j].custom_id # file[k].custom_id
        /\ \A j, k \in 1..Len(file) :
              /\ file[j].params.model = file[k].params.model
              /\ file[j].params.max_tokens = file[k].params.max_tokens
              /\ file[j].params.temperature = file[k].params.temperature
              /\ file[j].params.tools = file[k].params.tools
              /\ file[j].params.tool_choice = file[k].params.tool_choice
        /\ \A k \in 1..Len(file) :
              /\ file[k].params.model = model
              /\ file[k].params.max_tokens = max_tokens
              /\ file[k].params.temperature = temperature

\* Reached: a finished call with MaxConvs conversations, not all alike.
C6_Witness ==
    /\ wpc = "done" /\ Len(file) = MaxConvs /\ MaxConvs >= 2
    /\ messages_batch[1] # messages_batch[MaxConvs]

(***************************************************************************)
(* C7: every line written carries Anthropic-shaped tool entries when the   *)
(* model string holds "claude" in any case, and generic-shaped tool        *)
(* entries otherwise; no file mixes the two.                               *)
(***************************************************************************)
C7_ProviderMode ==
    FileWritten =>
        \A k \in 1..Len(file) :
            /\ Len(file[k].params.tools) >= 1
            /\ \A j \in 1..Len(file[k].params.tools) :
                  IF NamesClaude(model)
                  THEN AnthropicShaped(file[k].params.tools[j])
                  ELSE GenericShaped(file[k].params.tools[j])

\* Reached: a finished file of Anthropic-shaped lines for a model string
\* that has "Claude" with a capital.
C7_Witness ==
    /\ wpc = "done" /\ Len(file) >= 2
    /\ NamesClaude(model) /\ ~substring_in(claude, model)
    /\ AnthropicShaped(file[2].params.tools[1])

\* Reached: a finished file of generic-shaped lines.
C7_ReachedGeneric ==
    /\ wpc = "done" /\ Len(file) >= 2
    /\ ~NamesClaude(model)
    /\ GenericShaped(file[2].params.tools[1])

(***************************************************************************)
(* C10: the tool encoding is derived before the file is opened (a failure  *)
(* there leaves the file as it was); when the envelope of conversation i   *)
(* cannot be built the call raises, and the file holds exactly the lines   *)
(* of conversations 1..i-1 (none when i = 1): nothing for i or later.      *)
(***************************************************************************)
C10_PartialFile ==
    /\ wpc = "raised_before_open" => file = <<OldLine>>
    /\ wpc = "loop" => \A k \in 1..written : k \notin FailingConversations
    /\ wpc \in {"done", "raised_in_loop"} =>
          IF FailingConversations = {} THEN wpc = "done"
          ELSE /\ wpc = "raised_in_loop"
               /\ Len(file) = FirstFailing - 1
               /\ \A k \in 1..Len(file) :
                     file[k].params.messages = messages_batch[k]

\* Reached: a call that raised after writing a line, with a conversation
\* left after the failing one.
C10_Witness ==
    /\ wpc = "raised_in_loop" /\ Len(file) >= 1
    /\ Len(messages_batch) >= Len(file) + 2
====
